---- MODULE Spec2Model ----
(***************************************************************************)
(* A model of the Coexistence-for-Dis_evo repository:                      *)
(*   - Barcode_Counter/Rename.py: the batch rename / copy / symlink tool;  *)
(*   - DataAnalysis/Strain_competition.py and Analyze_12well_plates.py:    *)
(*     the plate-map loader, the data joiner and the two-strain            *)
(*     normaliser of the two analyzers.                                    *)
(* Text is modelled as sequences of one-character strings, so that the     *)
(* regular expressions, split, strip, zfill, int and replace of the source *)
(* are computed and not assumed.                                           *)
(***************************************************************************)
EXTENDS Integers, Sequences, FiniteSets, TLC

(***************************************************************************)
(* Bounds of the model.                                                    *)
(***************************************************************************)
MaxFiles == 2
MaxIOErrors == 1
MaxRuns == 2
MaxRows == 2
MaxConds == 5

(***************************************************************************)
(* Characters and text.                                                    *)
(***************************************************************************)
Digits == {"0", "1", "2", "3", "4", "5", "6", "7", "8", "9"}

UpperCase ==
  {"A", "B", "C", "D", "E", "F", "G", "H", "I", "J", "K", "L", "M",
   "N", "O", "P", "Q", "R", "S", "T", "U", "V", "W", "X", "Y", "Z"}

\* The characters the model's texts use, in code point order.
Ascii ==
  << " ", "-", ".", "0", "1", "2", "3", "4", "5", "6", "7", "8", "9",
     "A", "B", "C", "D", "E", "F", "G", "H", "I", "J", "K", "L", "M",
     "N", "O", "P", "Q", "R", "S", "T", "U", "V", "W", "X", "Y", "Z",
     "_", "a", "b", "c", "d", "e", "f", "g", "h", "i", "j", "k", "l", "m",
     "n", "o", "p", "q", "r", "s", "t", "u", "v", "w", "x", "y", "z" >>

Ord(c) == CHOOSE i \in 1..Len(Ascii) : Ascii[i] = c

\* Python's str < str: lexicographic by code point, a proper prefix first.
RECURSIVE StrLess(_, _)
StrLess(a, b) ==
  IF b = <<>> THEN FALSE
  ELSE IF a = <<>> THEN TRUE
  ELSE IF Head(a) = Head(b) THEN StrLess(Tail(a), Tail(b))
  ELSE Ord(Head(a)) < Ord(Head(b))

StartsWith(s, p) == Len(s) >= Len(p) /\ SubSeq(s, 1, Len(p)) = p

EndsWith(s, p) ==
  Len(s) >= Len(p) /\ SubSeq(s, Len(s) - Len(p) + 1, Len(s)) = p

\* The first index j >= i where s[j] is outside cls (Len(s)+1 when none):
\* the end of a greedy run of a character class.
RunEnd(s, i, cls) ==
  CHOOSE j \in i..(Len(s) + 1) :
    /\ \A k \in i..(j - 1) : s[k] \in cls
    /\ (j = Len(s) + 1 \/ s[j] \notin cls)

\* The first index j >= i where s[j] = c (Len(s)+1 when none): the end of a
\* greedy run of the negated class [^c].
FindChar(s, i, c) ==
  CHOOSE j \in i..(Len(s) + 1) :
    /\ \A k \in i..(j - 1) : s[k] # c
    /\ (j = Len(s) + 1 \/ s[j] = c)

\* str.split(sep) for a one-character separator.
RECURSIVE Split(_, _)
Split(s, sep) ==
  LET j == FindChar(s, 1, sep) IN
  IF j = Len(s) + 1 THEN << s >>
  ELSE << SubSeq(s, 1, j - 1) >> \o Split(SubSeq(s, j + 1, Len(s)), sep)

\* str.zfill(width) of a text of digits.
RECURSIVE zfill(_, _)
zfill(s, width) == IF Len(s) >= width THEN s ELSE zfill(<< "0" >> \o s, width)

\* str.strip() of blanks.
RECURSIVE strip(_)
strip(s) ==
  IF s = <<>> THEN s
  ELSE IF Head(s) = " " THEN strip(Tail(s))
  ELSE IF s[Len(s)] = " " THEN strip(SubSeq(s, 1, Len(s) - 1))
  ELSE s

\* str.replace(c, '') for a one-character c.
RECURSIVE remove_char(_, _)
remove_char(s, c) ==
  IF s = <<>> THEN s
  ELSE (IF Head(s) = c THEN <<>> ELSE << Head(s) >>) \o remove_char(Tail(s), c)

DigitValue(c) == Ord(c) - Ord("0")

RECURSIVE DigitsValue(_, _)
DigitsValue(s, acc) ==
  IF s = <<>> THEN acc ELSE DigitsValue(Tail(s), 10 * acc + DigitValue(Head(s)))

\* int(s) of a text: blanks around the digits are dropped; a text that is not
\* a run of digits raises ValueError (ok = FALSE). The texts of the model
\* carry no sign and no underscore between digits.
py_int(s) ==
  LET t == strip(s) IN
  IF t # <<>> /\ \A i \in DOMAIN t : t[i] \in Digits
  THEN [ok |-> TRUE, value |-> DigitsValue(t, 0)]
  ELSE [ok |-> FALSE, value |-> 0]

\* str(n) of a natural number.
RECURSIVE py_str(_)
py_str(n) ==
  IF n < 10 THEN << Ascii[Ord("0") + n] >>
  ELSE py_str(n \div 10) \o << Ascii[Ord("0") + (n % 10)] >>


(***************************************************************************)
(* Barcode_Counter/Rename.py                                               *)
(***************************************************************************)
VARIABLES
  fs,               \* the file system: the set of directory entries
  dirs,             \* the directories that exist
  pc,               \* "idle", "loop" (inside the for loop of line 89), "done"
  args,             \* the arguments of the running call
  files_to_rename,  \* the pairs <<old path, new path>> still to process
  n_matched,        \* len(files_to_rename) as found by the scan
  success_count,
  error_count,
  printed,          \* what the call has printed, in order
  fs0,              \* the file system when the call began
  dirs0,            \* the directories when the call began
  io_errors,        \* exceptions the environment has raised in this call
  runs              \* calls made so far

renameVars ==
  << fs, dirs, pc, args, files_to_rename, n_matched, success_count,
     error_count, printed, fs0, dirs0, io_errors, runs >>

(***************************************************************************)
(* The state of an analyzer (PlateMapStrainAnalyzer of                     *)
(* Strain_competition.py, TwelveWellAnalyzer of Analyze_12well_plates.py). *)
(***************************************************************************)
VARIABLES
  analyzer,      \* the class constructed, "" before the constructor runs
  platemap_csv,  \* the rows of the plate-map file
  barcode_data,  \* the barcode-count table: its columns and its rows
  plate_map,     \* self.plate_map: the entries, one per key
  plate_map0,    \* self.plate_map as the constructor left it
  apc,           \* "new", "ready", "raised" (the constructor raised)
  result,        \* the last call: what it returned, raised and drew
  aprinted       \* what the last call printed

analysisVars ==
  << analyzer, platemap_csv, barcode_data, plate_map, plate_map0, apc, result,
     aprinted >>

vars == << renameVars, analysisVars >>

\* The literal head of the pattern of line 40 and its literal tail.
PatternHead == << "0", "0", "0", "0", "0", "0", "0", "0", "0", "-", "G", "R", "N", "6", "V", "_", "l", "0", "1", "_", "n", "0" >>

FastqGz == << ".", "f", "a", "s", "t", "q", ".", "g", "z" >>

NoMatch == [ok |-> FALSE, read_num |-> <<>>, project_name |-> <<>>, sample_name |-> <<>>]

\* The pattern with n0(\d) for n0([12]).
pattern_match_any_read(name) ==
  LET h == Len(PatternHead)
      a == h + 3
      b == FindChar(name, a, "_")
      d == RunEnd(name, b + 1, Digits)
      e == d + 2
      f == FindChar(name, e, ".")
  IN
  IF /\ StartsWith(name, PatternHead)
     /\ Len(name) >= h + 2
     /\ name[h + 1] \in Digits
     /\ name[h + 2] = "_"
     /\ b > a
     /\ b <= Len(name)
     /\ d > b + 1
     /\ d + 1 <= Len(name)
     /\ name[d] = "_"
     /\ name[d + 1] = "_"
     /\ f > e
     /\ f + Len(FastqGz) - 1 <= Len(name)
     /\ SubSeq(name, f, f + Len(FastqGz) - 1) = FastqGz
  THEN [ok |-> TRUE,
        read_num |-> << name[h + 1] >>,
        project_name |-> SubSeq(name, a, b - 1),
        sample_name |-> SubSeq(name, e, f - 1)]
  ELSE NoMatch

\* pattern.match(name): 000000000-GRN6V_l01_n0([12])_([^_]+)_\d+__([^.]+)\.fastq\.gz
\* anchored at the start of the name only. Every quantifier is followed by a
\* character outside its class, so the greedy runs are the only way to match.
pattern_match(name) ==
  LET h == Len(PatternHead)
      a == h + 3
      b == FindChar(name, a, "_")
      d == RunEnd(name, b + 1, Digits)
      e == d + 2
      f == FindChar(name, e, ".")
  IN
  IF /\ StartsWith(name, PatternHead)
     /\ Len(name) >= h + 2
     /\ name[h + 1] \in {"1", "2"}
     /\ name[h + 2] = "_"
     /\ b > a
     /\ b <= Len(name)
     /\ d > b + 1
     /\ d + 1 <= Len(name)
     /\ name[d] = "_"
     /\ name[d + 1] = "_"
     /\ f > e
     /\ f + Len(FastqGz) - 1 <= Len(name)
     /\ SubSeq(name, f, f + Len(FastqGz) - 1) = FastqGz
  THEN [ok |-> TRUE,
        read_num |-> << name[h + 1] >>,
        project_name |-> SubSeq(name, a, b - 1),
        sample_name |-> SubSeq(name, e, f - 1)]
  ELSE NoMatch

\* A naming that leaves the sample as it is.
sample_name_unpadded(sample_name) == sample_name

\* Lines 53-59: re.match(r'([A-Z]+)(\d+)', sample_name), anchored at the start
\* only, and the zero-padded well built from its two groups.
sample_name_padded(sample_name) ==
  LET l == RunEnd(sample_name, 1, UpperCase)
      n == RunEnd(sample_name, l, Digits)
  IN
  IF l > 1 /\ n > l
  THEN SubSeq(sample_name, 1, l - 1) \o zfill(SubSeq(sample_name, l, n - 1), 2)
  ELSE sample_name

\* Line 62.
new_name(m) ==
  m.project_name \o << "_" >> \o sample_name_padded(m.sample_name)
    \o << "_", "R" >> \o m.read_num \o FastqGz

\* Line 73: the sort key (x[1].name.split('_')[1], x[1].name).
sort_key(name) == << Split(name, "_")[2], name >>

KeyLess(k1, k2) ==
  \/ StrLess(k1[1], k2[1])
  \/ (k1[1] = k2[1] /\ StrLess(k1[2], k2[2]))


(***************************************************************************)
(* The file system. An entry is a regular file (data: whose bytes it       *)
(* holds, named by the file they were first seen in) or a symbolic link    *)
(* (target: the path it was given). A path is a directory and a name; a    *)
(* link target also records whether it is absolute, since a relative       *)
(* target is resolved from the link's own directory.                       *)
(***************************************************************************)
NoTarget == [dir |-> "", name |-> <<>>, abs |-> FALSE]

File(d, n, bytes) ==
  [dir |-> d, name |-> n, kind |-> "file", data |-> bytes, target |-> NoTarget]

Link(d, n, t) ==
  [dir |-> d, name |-> n, kind |-> "link", data |-> <<>>, target |-> t]

Path(d, n) == [dir |-> d, name |-> n]

At(f, p) == {e \in f : e.dir = p.dir /\ e.name = p.name}

\* A test that takes no path for a symbolic link.
is_symlink_never(f, p) == FALSE

\* Path.is_symlink()
is_symlink(f, p) == \E e \in At(f, p) : e.kind = "link"

\* The regular file a path leads to, following links: the empty set when the
\* path is absent or dangling. A relative target is looked up under the
\* link's directory, where the model has no subdirectories: it dangles.
RECURSIVE Resolve(_, _, _)
Resolve(f, p, fuel) ==
  IF fuel = 0 THEN {}
  ELSE UNION { IF e.kind = "file" THEN {e}
               ELSE IF e.target.abs
                    THEN Resolve(f, Path(e.target.dir, e.target.name), fuel - 1)
                    ELSE {} : e \in At(f, p) }

\* A test that finds no path to exist.
exists_never(f, p) == FALSE

\* Path.exists(): follows symbolic links.
exists(f, p) == Resolve(f, p, Cardinality(f) + 1) # {}

\* Path.absolute()
absolute(p) == [dir |-> p.dir, name |-> p.name, abs |-> TRUE]

\* fastq_path.glob("*.fastq.gz"): the names of the directory's entries that
\* end in .fastq.gz, links included.
glob(f, d) == {e.name : e \in {x \in f : x.dir = d /\ EndsWith(x.name, FastqGz)}}

\* Line 113: old_path.rename(new_path).
rename(f, old, new) ==
  (f \ At(f, old))
    \cup {[e EXCEPT !.dir = new.dir, !.name = new.name] : e \in At(f, old)}

\* Line 109: shutil.copy2(old_path, new_path): the bytes the source leads to.
copy2(f, old, new) ==
  f \cup {File(new.dir, new.name, e.data) : e \in Resolve(f, old, Cardinality(f) + 1)}

\* The link given the path as it was passed in, not made absolute.
symlink_to_relative(f, new, old) ==
  f \cup {Link(new.dir, new.name, [dir |-> old.dir, name |-> old.name, abs |-> FALSE])}

\* Line 105: new_path.symlink_to(old_path.absolute()).
symlink_to(f, new, old) == f \cup {Link(new.dir, new.name, absolute(old))}

\* Lines 33, 76, 102: the truth value of output_dir.
Truthy(output_dir) == output_dir \notin {"None", ""}

\* Lines 102-114: the operation the mode selects.
ModeOp(output_dir, use_symlinks) ==
  IF Truthy(output_dir)
  THEN (IF use_symlinks THEN "symlink" ELSE "copy")
  ELSE "rename"

ApplyOp(op, f, old, new) ==
  CASE op = "symlink" -> symlink_to(f, new, old)
    [] op = "copy" -> copy2(f, old, new)
    [] op = "rename" -> rename(f, old, new)

\* Lines 106, 110, 114: what is printed after the operation.
OpMessage(op) ==
  CASE op = "symlink" -> "Symlinked"
    [] op = "copy" -> "Copied"
    [] op = "rename" -> "Renamed"

Msg(m, old, new) == [msg |-> m, old |-> old, new |-> new]

(***************************************************************************)
(* The inputs: the names a directory may hold.                             *)
(***************************************************************************)
CoexP1 == << "C", "o", "e", "x", "P", "1" >>

Raw(read, project, number, sample) ==
  PatternHead \o read \o << "_" >> \o project \o << "_" >> \o number
    \o << "_", "_" >> \o sample \o FastqGz

\* The two names of the module docstring.
F_A1_n01 == Raw(<< "1" >>, CoexP1, << "1" >>, << "A", "1" >>)

F_A1_n02 == Raw(<< "2" >>, CoexP1, << "1" >>, << "A", "1" >>)

\* A well already written with two digits, and one with a suffix.
F_A01_n01 == Raw(<< "1" >>, CoexP1, << "2" >>, << "A", "0", "1" >>)

F_A10_n02 == Raw(<< "2" >>, CoexP1, << "1", "0" >>, << "A", "1", "0" >>)

\* A sample that is not a well.
F_neg_n01 == Raw(<< "1" >>, CoexP1, << "3" >>, << "n", "e", "g" >>)

\* Names the pattern does not match: read 3, a name in the new scheme, a
\* name that is no .fastq.gz.
F_A1_n03 == Raw(<< "3" >>, CoexP1, << "1" >>, << "A", "1" >>)

T_A01_R1 == << "C", "o", "e", "x", "P", "1", "_", "A", "0", "1", "_", "R", "1", ".", "f", "a", "s", "t", "q", ".", "g", "z" >>

NotesTxt == << "n", "o", "t", "e", "s", ".", "t", "x", "t" >>

InPool ==
  {F_A1_n01, F_A1_n02, F_A01_n01, F_A10_n02, F_neg_n01, F_A1_n03, T_A01_R1,
   NotesTxt}

Elsewhere == << "e", "l", "s", "e", "w", "h", "e", "r", "e" >>

\* What the output directory may hold before the call: nothing, a regular
\* file or a dangling link under a name the run will want.
OutPool ==
  { {},
    {File("out", T_A01_R1, Elsewhere)},
    {Link("out", T_A01_R1, [dir |-> "gone", name |-> Elsewhere, abs |-> TRUE])} }

FastqDirs == {"in", "gone"}

OutputDirs == {"None", "in", "out"}

NoArgs ==
  [fastq_dir |-> "", output_dir |-> "None", dry_run |-> FALSE, use_symlinks |-> FALSE]

RenameInit ==
  /\ pc = "idle"
  /\ \E names \in SUBSET InPool, o \in OutPool, hasOut \in BOOLEAN :
       /\ Cardinality(names) <= MaxFiles
       /\ (~hasOut => o = {})
       /\ dirs = (IF hasOut THEN {"in", "out"} ELSE {"in"})
       /\ fs = {File("in", n, n) : n \in names} \cup o
  /\ args = NoArgs
  /\ files_to_rename = <<>>
  /\ n_matched = 0
  /\ success_count = 0
  /\ error_count = 0
  /\ printed = <<>>
  /\ fs0 = fs
  /\ dirs0 = dirs
  /\ io_errors = 0
  /\ runs = 0


(***************************************************************************)
(* rename_fastq_files                                                      *)
(***************************************************************************)
\* Lines 45-65: the matching names of the directory.
Matched(f, fastq_dir) == {n \in glob(f, fastq_dir) : pattern_match(n).ok}

\* Lines 45-73: glob yields the names in an order the platform chooses and
\* list.sort is stable, so the list is in any order that is sorted by key.
SortedOrders(names) ==
  {o \in [1..Cardinality(names) -> names] :
     /\ \A i, j \in DOMAIN o : i # j => o[i] # o[j]
     /\ \A i, j \in DOMAIN o :
          i < j => ~KeyLess(sort_key(new_name(pattern_match(o[j]))),
                            sort_key(new_name(pattern_match(o[i]))))}

\* Lines 33-37.
output_path(fastq_dir, output_dir) ==
  IF Truthy(output_dir) THEN output_dir ELSE fastq_dir

\* Line 35: output_path.mkdir(parents=True, exist_ok=True).
mkdir(ds, output_dir) == IF Truthy(output_dir) THEN ds \cup {output_dir} ELSE ds

\* The output directory made before the input directory is looked at.
dirs_after_mkdir_first(ds, fastq_dir, output_dir) == mkdir(ds, output_dir)

\* Lines 28-37: a missing input directory returns before the output
\* directory is made.
dirs_after(ds, fastq_dir, output_dir) ==
  IF fastq_dir \notin ds THEN ds ELSE mkdir(ds, output_dir)

\* Lines 26-87: the call up to the for loop of line 89. pre is what the
\* caller has printed before the call.
Call(fastq_dir, output_dir, dry_run, use_symlinks, pre) ==
  /\ args' = [fastq_dir |-> fastq_dir, output_dir |-> output_dir,
              dry_run |-> dry_run, use_symlinks |-> use_symlinks]
  /\ runs' = runs + 1
  /\ fs0' = fs
  /\ dirs0' = dirs
  /\ fs' = fs
  /\ success_count' = 0
  /\ error_count' = 0
  /\ io_errors' = 0
  /\ UNCHANGED analysisVars
  /\ dirs' = dirs_after(dirs, fastq_dir, output_dir)
  /\ IF fastq_dir \notin dirs
     THEN /\ printed' = pre \o << Msg("Error: Directory does not exist", <<>>, <<>>) >>
          /\ files_to_rename' = <<>>
          /\ n_matched' = 0
          /\ pc' = "done"
     ELSE /\ IF Matched(fs, fastq_dir) = {}
             THEN /\ printed' = pre \o << Msg("No files matching the expected pattern found.", <<>>, <<>>) >>
                  /\ files_to_rename' = <<>>
                  /\ n_matched' = 0
                  /\ pc' = "done"
             ELSE /\ \E o \in SortedOrders(Matched(fs, fastq_dir)) :
                       files_to_rename' =
                         [i \in DOMAIN o |->
                            << Path(fastq_dir, o[i]),
                               Path(output_path(fastq_dir, output_dir),
                                    new_name(pattern_match(o[i]))) >>]
                  /\ n_matched' = Cardinality(Matched(fs, fastq_dir))
                  /\ printed' = pre \o
                       << Msg("Found files to rename", <<>>, <<>>),
                          Msg(IF Truthy(output_dir)
                              THEN (IF use_symlinks THEN "Mode: Creating symlinks"
                                    ELSE "Mode: Copying files")
                              ELSE "Mode: Renaming in place", <<>>, <<>>) >>
                  /\ pc' = "loop"

\* A direct call of the function, with any arguments.
rename_fastq_files ==
  /\ pc = "idle"
  /\ \E fd \in FastqDirs, od \in OutputDirs, dr \in BOOLEAN, us \in BOOLEAN :
       Call(fd, od, dr, us, <<>>)

\* The flag passed on as given.
main_symlinks_kept(output_dir, symlinks) == symlinks

\* Lines 179-181 of main: --symlinks without --output-dir is dropped.
main_symlinks(output_dir, symlinks) ==
  IF symlinks /\ ~Truthy(output_dir) THEN FALSE ELSE symlinks

\* Line 180: the warning main prints when it drops the flag.
IgnoringSymlinks ==
  << Msg("Warning: --symlinks requires --output-dir. Ignoring --symlinks flag.",
         <<>>, <<>>) >>

main_warning(output_dir, symlinks) ==
  IF symlinks /\ ~Truthy(output_dir) THEN IgnoringSymlinks ELSE <<>>

\* Lines 177-183: the command line.
main ==
  /\ pc = "idle"
  /\ \E fd \in FastqDirs, od \in OutputDirs, dr \in BOOLEAN, us \in BOOLEAN :
       Call(fd, od, dr, main_symlinks(od, us), main_warning(od, us))

\* The same command run again once the first has returned.
Rerun ==
  /\ pc = "done"
  /\ runs < MaxRuns
  /\ Call(args.fastq_dir, args.output_dir, args.dry_run, args.use_symlinks,
          IF printed # <<>> /\ << Head(printed) >> = IgnoringSymlinks
          THEN IgnoringSymlinks ELSE <<>>)

\* The loop with a failure ending it (break for continue).
LoopBody_stops_at_failure ==
  /\ pc = "loop"
  /\ files_to_rename # <<>>
  /\ LET old_path == Head(files_to_rename)[1]
         new_path == Head(files_to_rename)[2]
         op == ModeOp(args.output_dir, args.use_symlinks)
     IN
     /\ IF args.dry_run
        THEN /\ printed' = Append(printed,
                   Msg(IF args.use_symlinks /\ Truthy(args.output_dir)
                       THEN "Would symlink" ELSE "Would rename/copy",
                       old_path.name, new_path.name))
             /\ UNCHANGED << fs, success_count, error_count, io_errors >>
        ELSE IF exists(fs, new_path) \/ is_symlink(fs, new_path)
        THEN /\ printed' = Append(printed,
                   Msg("Warning: already exists, skipping", old_path.name, new_path.name))
             /\ error_count' = error_count + 1
             /\ UNCHANGED << fs, success_count, io_errors >>
        ELSE \/ /\ fs' = ApplyOp(op, fs, old_path, new_path)
                /\ printed' = Append(printed,
                      Msg(OpMessage(op), old_path.name, new_path.name))
                /\ success_count' = success_count + 1
                /\ UNCHANGED << error_count, io_errors >>
             \/ /\ io_errors < MaxIOErrors
                /\ fs' \in {fs} \cup
                     (IF op = "copy"
                      THEN {fs \cup {File(new_path.dir, new_path.name, <<>>)}}
                      ELSE {})
                /\ printed' = Append(printed,
                      Msg("Error processing", old_path.name, new_path.name))
                /\ error_count' = error_count + 1
                /\ io_errors' = io_errors + 1
                /\ UNCHANGED success_count
  /\ files_to_rename' = IF error_count' > error_count THEN <<>>
                        ELSE Tail(files_to_rename)
  /\ UNCHANGED << dirs, pc, args, n_matched, fs0, dirs0, runs >>
  /\ UNCHANGED analysisVars

\* Lines 89-120: one iteration of the for loop. The environment may make the
\* operation raise: nothing is done, or (a copy) a target is left behind
\* with the bytes unwritten.
LoopBody ==
  /\ pc = "loop"
  /\ files_to_rename # <<>>
  /\ LET old_path == Head(files_to_rename)[1]
         new_path == Head(files_to_rename)[2]
         op == ModeOp(args.output_dir, args.use_symlinks)
     IN
     /\ files_to_rename' = Tail(files_to_rename)
     /\ IF args.dry_run
        THEN /\ printed' = Append(printed,
                   Msg(IF args.use_symlinks /\ Truthy(args.output_dir)
                       THEN "Would symlink" ELSE "Would rename/copy",
                       old_path.name, new_path.name))
             /\ UNCHANGED << fs, success_count, error_count, io_errors >>
        ELSE IF exists(fs, new_path) \/ is_symlink(fs, new_path)
        THEN /\ printed' = Append(printed,
                   Msg("Warning: already exists, skipping", old_path.name, new_path.name))
             /\ error_count' = error_count + 1
             /\ UNCHANGED << fs, success_count, io_errors >>
        ELSE \/ /\ fs' = ApplyOp(op, fs, old_path, new_path)
                /\ printed' = Append(printed,
                      Msg(OpMessage(op), old_path.name, new_path.name))
                /\ success_count' = success_count + 1
                /\ UNCHANGED << error_count, io_errors >>
             \/ /\ io_errors < MaxIOErrors
                /\ fs' \in {fs} \cup
                     (IF op = "copy"
                      THEN {fs \cup {File(new_path.dir, new_path.name, <<>>)}}
                      ELSE {})
                /\ printed' = Append(printed,
                      Msg("Error processing", old_path.name, new_path.name))
                /\ error_count' = error_count + 1
                /\ io_errors' = io_errors + 1
                /\ UNCHANGED success_count
  /\ UNCHANGED << dirs, pc, args, n_matched, fs0, dirs0, runs >>
  /\ UNCHANGED analysisVars

\* Lines 122-128: after the loop.
Finish ==
  /\ pc = "loop"
  /\ files_to_rename = <<>>
  /\ pc' = "done"
  /\ printed' =
       (IF args.dry_run
        THEN Append(printed, Msg("Dry run complete.", <<>>, <<>>))
        ELSE Append(printed, Msg("Processing complete.", <<>>, <<>>))
               \o (IF error_count > 0
                   THEN << Msg("files had errors.", <<>>, <<>>) >> ELSE <<>>))
  /\ UNCHANGED << fs, dirs, args, files_to_rename, n_matched, success_count,
                  error_count, fs0, dirs0, io_errors, runs >>
  /\ UNCHANGED analysisVars

RenameNext == rename_fastq_files \/ main \/ Rerun \/ LoopBody \/ Finish

(***************************************************************************)
(* DataAnalysis/Strain_competition.py (PlateMapStrainAnalyzer) and         *)
(* DataAnalysis/.ipynb_checkpoints/Analyze_12well_plates-checkpoint.py     *)
(* (TwelveWellAnalyzer). Strain_competition.py as committed has the first  *)
(* two lines of _load_plate_map's body (lines 72-73) at the indentation of *)
(* the def; the model reads them as the body they are meant to be.         *)
(***************************************************************************)
PlateMapStrainAnalyzer == "PlateMapStrainAnalyzer"

TwelveWellAnalyzer == "TwelveWellAnalyzer"

\* self.strain_pairs, in the order the dict is written.
strain_pairs(cls) ==
  IF cls = PlateMapStrainAnalyzer
  THEN << [key |-> << "P", "a", "i", "r", "1" >>, strains |-> << << "P", "3", "_", "B", "3" >>, << "P", "3", "_", "H", "1" >> >>],
     [key |-> << "P", "a", "i", "r", "2" >>, strains |-> << << "P", "3", "_", "C", "1" >>, << "P", "3", "_", "G", "7" >> >>],
     [key |-> << "P", "a", "i", "r", "3" >>, strains |-> << << "P", "3", "_", "B", "3" >>, << "P", "3", "_", "G", "7" >> >>],
     [key |-> << "P", "a", "i", "r", "4" >>, strains |-> << << "P", "2", "_", "B", "1" >>, << "P", "3", "_", "H", "5" >> >>],
     [key |-> << "P", "a", "i", "r", "5" >>, strains |-> << << "P", "2", "_", "B", "1" >>, << "P", "4", "_", "G", "6" >> >>],
     [key |-> << "P", "a", "i", "r", "6" >>, strains |-> << << "P", "3", "_", "C", "2" >>, << "P", "4", "_", "G", "6" >> >>],
     [key |-> << "P", "a", "i", "r", "7" >>, strains |-> << << "P", "3", "_", "C", "2" >>, << "P", "3", "_", "H", "5" >> >>],
     [key |-> << "P", "a", "i", "r", "8" >>, strains |-> << << "P", "4", "_", "F", "2" >>, << "P", "3", "_", "D", "9" >> >>],
     [key |-> << "P", "a", "i", "r", "9" >>, strains |-> << << "P", "4", "_", "F", "2" >>, << "P", "3", "_", "A", "7" >> >>],
     [key |-> << "P", "a", "i", "r", "1", "0" >>, strains |-> << << "P", "4", "_", "F", "2" >>, << "P", "5", "_", "F", "8" >> >>],
     [key |-> << "P", "a", "i", "r", "1", "1" >>, strains |-> << << "P", "4", "_", "C", "1", "1" >>, << "P", "3", "_", "D", "9" >> >>],
     [key |-> << "P", "a", "i", "r", "1", "2" >>, strains |-> << << "P", "4", "_", "C", "1", "1" >>, << "P", "5", "_", "F", "8" >> >>],
     [key |-> << "P", "a", "i", "r", "1", "3" >>, strains |-> << << "P", "4", "_", "C", "1", "1" >>, << "P", "3", "_", "A", "7" >> >>] >>
  ELSE << [key |-> << "P", "a", "i", "r", "1" >>, strains |-> << << "P", "3", "_", "B", "3" >>, << "P", "3", "_", "H", "1" >> >>],
     [key |-> << "P", "a", "i", "r", "2" >>, strains |-> << << "P", "3", "_", "C", "1" >>, << "P", "3", "_", "G", "7" >> >>],
     [key |-> << "P", "a", "i", "r", "8" >>, strains |-> << << "P", "4", "_", "F", "2" >>, << "P", "3", "_", "D", "9" >> >>] >>

PairText == << "P", "a", "i", "r" >>

BCID == << "B", "C", "I", "D" >>

CoexP == << "C", "o", "e", "x", "P" >>

SALT == << "S", "A", "L", "T" >>

GAL == << "G", "A", "L" >>

Unknown == << "U", "n", "k", "n", "o", "w", "n" >>

One == << "1" >>

\* str() of a missing cell (a float NaN).
NanText == << "n", "a", "n" >>

\* The key of a well: f"P{plate}_{well}".
Key(plate, well) == << "P" >> \o py_str(plate) \o << "_" >> \o well

Entry(key, type, pair, condition, replicate, timepoint) ==
  [key |-> key, type |-> type, pair |-> pair, condition |-> condition,
   replicate |-> replicate, timepoint |-> timepoint]

\* plate_map[key] = entry: a later row of the same key replaces the earlier.
Put(pm, entries) ==
  {e \in pm : \A n \in entries : n.key # e.key} \cup entries

\* Strain_competition.py lines 80-110: the entry a row adds, if any.
strain_row_entries(row) ==
  LET parts == Split(strip(row.condition), "_")
      key == Key(row.PLATE, row.WELL)
  IN
  IF Len(parts) > 1 /\ parts[2] \in {SALT, GAL}
  THEN {Entry(key, "pair",
              IF Len(parts) > 2 THEN remove_char(parts[3], "P") ELSE Unknown,
              parts[2],
              IF Len(parts) > 3 THEN parts[4] ELSE One,
              One)}
  ELSE IF Len(parts) >= 5
  THEN (IF parts[1] = << "C" >>
        THEN {Entry(key, "pair", parts[2], parts[3],
                    IF Len(parts) > 3 THEN parts[4] ELSE One,
                    IF Len(parts) > 4 THEN parts[5] ELSE One)}
        ELSE IF parts[1] = << "P" >>
        THEN {Entry(key, "pair", parts[2], parts[3], parts[4],
                    IF Len(parts) > 4 THEN parts[5] ELSE One)}
        ELSE {})
  ELSE {}

\* Strain_competition.py lines 71-112. condition_str.strip() on a missing
\* cell (a float) raises AttributeError, which nothing catches.
RECURSIVE strain_load_plate_map(_, _)
strain_load_plate_map(rows, pm) ==
  IF rows = <<>> THEN [raised |-> FALSE, plate_map |-> pm]
  ELSE IF Head(rows).missing THEN [raised |-> TRUE, plate_map |-> {}]
  ELSE strain_load_plate_map(Tail(rows), Put(pm, strain_row_entries(Head(rows))))

\* Analyze_12well_plates lines 60-74: the entry a row adds, if any.
twelve_row_entries(row) ==
  LET condition_str == strip(IF row.missing THEN NanText ELSE row.condition)
      parts == Split(condition_str, "_")
      key == Key(row.PLATE, row.WELL)
  IN
  IF Len(parts) >= 5 /\ parts[1] = << "C" >>
  THEN {Entry(key, "", parts[2], parts[3], parts[4], parts[5])}
  ELSE {}

\* Analyze_12well_plates lines 54-77.
RECURSIVE twelve_load_plate_map(_, _)
twelve_load_plate_map(rows, pm) ==
  IF rows = <<>> THEN [raised |-> FALSE, plate_map |-> pm]
  ELSE twelve_load_plate_map(Tail(rows), Put(pm, twelve_row_entries(Head(rows))))

load_plate_map(cls, rows) ==
  IF cls = PlateMapStrainAnalyzer
  THEN strain_load_plate_map(rows, {})
  ELSE twelve_load_plate_map(rows, {})

\* What _load_plate_map prints: the 12-well loader reports how many wells it
\* loaded (line 76); neither loader prints anything about a row it skips.
load_printed(cls, loaded) ==
  IF cls = TwelveWellAnalyzer /\ ~loaded.raised
  THEN << [msg |-> "Loaded wells from 12-well plates",
           text |-> py_str(Cardinality(loaded.plate_map))] >>
  ELSE <<>>

\* _parse_column_name: re.match(r'CoexP(\d+)_([A-H]\d+)', col_name), anchored
\* at the start only; the plate is int() of its digits.
parse_column_name(col_name) ==
  LET a == Len(CoexP) + 1
      b == RunEnd(col_name, a, Digits)
      c == RunEnd(col_name, b + 2, Digits)
  IN
  IF /\ col_name # BCID
     /\ StartsWith(col_name, CoexP)
     /\ b > a
     /\ b + 1 <= Len(col_name)
     /\ col_name[b] = "_"
     /\ col_name[b + 1] \in {"A", "B", "C", "D", "E", "F", "G", "H"}
     /\ c > b + 2
  THEN [ok |-> TRUE,
        plate |-> py_int(SubSeq(col_name, a, b - 1)).value,
        well |-> SubSeq(col_name, b + 1, c - 1)]
  ELSE [ok |-> FALSE, plate |-> 0, well |-> <<>>]

Lookup(pm, key) == {e \in pm : e.key = key}

\* A filter that drops the zero counts only.
keeps_count_nonzero(count) == count # 0

\* A filter that keeps every row of the sample.
keeps_any_count(count) == TRUE

\* sample_data[sample_data[col] > 0]: the rows a sample keeps.
keeps_count(count) == count > 0

\* The records of one sample column (lines 176-195 / 109-126): one per kept
\* row, none when int(metadata['timepoint']) raises ValueError.
RECURSIVE sample_records(_, _, _)
sample_records(rows, j, metadata) ==
  IF rows = <<>> THEN <<>>
  ELSE (IF keeps_count(Head(rows).counts[j]) /\ py_int(metadata.timepoint).ok
        THEN << [barcode |-> Head(rows).bcid,
                 frequency |-> Head(rows).counts[j],
                 pair |-> metadata.pair,
                 condition |-> metadata.condition,
                 timepoint |-> py_int(metadata.timepoint).value,
                 replicate |-> metadata.replicate] >>
        ELSE <<>>)
       \o sample_records(Tail(rows), j, metadata)

\* The part of process_all_data for the sample column j (columns[1:][j-1]).
column_records(cls, table, pm, j) ==
  LET parsed == parse_column_name(table.columns[j + 1])
      found == Lookup(pm, Key(parsed.plate, parsed.well))
  IN
  IF ~parsed.ok THEN <<>>
  ELSE IF found = {} THEN <<>>
  ELSE LET metadata == CHOOSE e \in found : TRUE IN
       IF cls = PlateMapStrainAnalyzer /\ metadata.type # "pair" THEN <<>>
       ELSE sample_records(table.rows, j, metadata)

\* process_all_data: the records, column by column, row by row.
RECURSIVE process_columns(_, _, _, _)
process_columns(cls, table, pm, j) ==
  IF j > Len(table.columns) - 1 THEN <<>>
  ELSE column_records(cls, table, pm, j) \o process_columns(cls, table, pm, j + 1)

process_all_data_df(cls, table, pm) == process_columns(cls, table, pm, 1)

\* Strain_competition.py line 167: the warning for a parsed column whose key
\* is not in the plate map (the 12-well class prints none).
RECURSIVE process_printed(_, _, _, _)
process_printed(cls, table, pm, j) ==
  IF j > Len(table.columns) - 1 THEN <<>>
  ELSE LET parsed == parse_column_name(table.columns[j + 1]) IN
       (IF /\ cls = PlateMapStrainAnalyzer
           /\ parsed.ok
           /\ Lookup(pm, Key(parsed.plate, parsed.well)) = {}
        THEN << [msg |-> "Warning: not found in plate map",
                 text |-> Key(parsed.plate, parsed.well)] >>
        ELSE <<>>)
       \o process_printed(cls, table, pm, j + 1)

\* A joiner that writes the parsed timepoint back into the entry it read.
plate_map_timepoints_parsed(pm) ==
  { [e EXCEPT !.timepoint = py_str(py_int(e.timepoint).value)] : e \in pm }

\* process_all_data reads self.plate_map and its entries and assigns neither.
plate_map_after_process(pm) == pm

(***************************************************************************)
(* create_pair_plot. A frequency is a fraction num/den: a count c is c/1.  *)
(***************************************************************************)
Frac(n, d) == [num |-> n, den |-> d]

Range(seq) == {seq[i] : i \in DOMAIN seq}

\* Series.sum() of a column of counts.
RECURSIVE SumSeq(_)
SumSeq(xs) == IF xs = <<>> THEN 0 ELSE Head(xs) + SumSeq(Tail(xs))

RECURSIVE SumNum(_)
SumNum(rows) ==
  IF rows = {} THEN 0
  ELSE LET r == CHOOSE x \in rows : TRUE IN r.frequency.num + SumNum(rows \ {r})

\* sorted(...) of a set of texts.
RECURSIVE SortTexts(_)
SortTexts(S) ==
  IF S = {} THEN <<>>
  ELSE LET m == CHOOSE x \in S : \A y \in S \ {x} : StrLess(x, y) IN
       << m >> \o SortTexts(S \ {m})

\* cond_data.groupby(['timepoint', 'replicate', 'barcode'])['frequency'].sum()
\* .reset_index(): one row for each triple that occurs.
groupby_sum(cond_data) ==
  { [timepoint |-> r.timepoint, replicate |-> r.replicate, barcode |-> r.barcode,
     frequency |->
       LET Same(x) == /\ x.timepoint = r.timepoint
                      /\ x.replicate = r.replicate
                      /\ x.barcode = r.barcode
           same == SelectSeq(cond_data, Same)
       IN Frac(SumSeq([i \in DOMAIN same |-> same[i].frequency]), 1)]
    : r \in Range(cond_data) }

\* Lines 263-264 / 181-182: the summed frequency of one strain in one
\* (timepoint, replicate) group.
strain_freq(grouped, tp, rep, strain) ==
  SumNum({r \in grouped :
            r.timepoint = tp /\ r.replicate = rep /\ r.barcode = strain})

\* The three assignments of lines 270-273 with line 273 left out.
normalized_frequency_others_kept(r, s1_freq, s2_freq, expected_strain_1, expected_strain_2) ==
  LET total == s1_freq + s2_freq IN
  IF total > 0
  THEN (IF r.barcode = expected_strain_2 THEN Frac(s2_freq, total)
        ELSE IF r.barcode = expected_strain_1 THEN Frac(s1_freq, total)
        ELSE r.frequency)
  ELSE r.frequency

\* Lines 266-273 / 183-188 for one row of the group: the three assignments in
\* their order (a later one wins), nothing when the total is not positive.
normalized_frequency(r, s1_freq, s2_freq, expected_strain_1, expected_strain_2) ==
  LET total == s1_freq + s2_freq IN
  IF total > 0
  THEN (IF r.barcode \notin {expected_strain_1, expected_strain_2} THEN Frac(0, 1)
        ELSE IF r.barcode = expected_strain_2 THEN Frac(s2_freq, total)
        ELSE Frac(s1_freq, total))
  ELSE r.frequency

\* Lines 257-273 / 176-188: the groups are disjoint, so each row is rewritten
\* from the sums of its own group as they were before the loop.
normalize(grouped, expected_strain_1, expected_strain_2) ==
  { [r EXCEPT !.frequency =
       normalized_frequency(
         r,
         strain_freq(grouped, r.timepoint, r.replicate, expected_strain_1),
         strain_freq(grouped, r.timepoint, r.replicate, expected_strain_2),
         expected_strain_1, expected_strain_2)]
    : r \in grouped }

\* Lines 276-295 / 191-209: one line per expected strain and replicate that
\* has rows, through its (timepoint, frequency) points.
plot_lines(grouped, expected_strain_1, expected_strain_2) ==
  { [barcode |-> r.barcode, replicate |-> r.replicate,
     points |-> { [timepoint |-> x.timepoint, frequency |-> x.frequency]
                  : x \in {y \in grouped : y.barcode = r.barcode
                                            /\ y.replicate = r.replicate} }]
    : r \in {y \in grouped : y.barcode \in {expected_strain_1, expected_strain_2}} }

\* A grid that is two by two whatever the number of conditions.
n_axes_two_by_two(n_cond) == 4

\* Lines 233-240 / 152-159: len(axes_flat).
n_axes(n_cond) == IF n_cond <= 4 THEN 4 ELSE ((n_cond + 2) \div 3) * 3

NoFigure(pair_number, status) ==
  [pair |-> pair_number, status |-> status, strains |-> << <<>>, <<>> >>,
   n_axes |-> 0, axes |-> <<>>, hidden |-> {}]

PairEntries(cls, pair_number) ==
  LET sp == strain_pairs(cls) IN
  {sp[i] : i \in {k \in DOMAIN sp : sp[k].key = PairText \o pair_number}}

\* create_pair_plot(pair_number) given the frame process_all_data returned.
\* pd.DataFrame([]) has no columns: df['pair'] raises KeyError.
pair_figure(cls, df, pair_number) ==
  LET IsPair(r) == r.pair = pair_number
      pair_data == SelectSeq(df, IsPair)
      defined == PairEntries(cls, pair_number)
  IN
  IF df = <<>> THEN NoFigure(pair_number, "KeyError")
  ELSE IF pair_data = <<>> THEN NoFigure(pair_number, "No data found")
  ELSE IF defined = {} THEN NoFigure(pair_number, "not defined")
  ELSE
    LET strains == (CHOOSE e \in defined : TRUE).strains
        expected_strain_1 == remove_char(strains[1], "_")
        expected_strain_2 == remove_char(strains[2], "_")
        conditions == SortTexts({r.condition : r \in Range(pair_data)})
        n_cond == Len(conditions)
        drawn == IF n_cond <= n_axes(n_cond) THEN n_cond ELSE n_axes(n_cond)
    IN
    [pair |-> pair_number,
     status |-> "saved",
     strains |-> << expected_strain_1, expected_strain_2 >>,
     n_axes |-> n_axes(n_cond),
     axes |->
       [i \in 1..drawn |->
          LET IsCond(r) == r.condition = conditions[i]
              grouped == normalize(groupby_sum(SelectSeq(pair_data, IsCond)),
                                   expected_strain_1, expected_strain_2)
          IN [condition |-> conditions[i],
              grouped |-> grouped,
              lines |-> plot_lines(grouped, expected_strain_1, expected_strain_2)]],
     hidden |-> (n_cond + 1)..n_axes(n_cond)]

figure_printed(fig) ==
  << [msg |-> fig.status, text |-> fig.pair] >>

\* What the calls of create_pair_plot print, one after the other: the
\* warnings of process_all_data, then the call's own message.
RECURSIVE all_printed(_, _, _)
all_printed(warnings, figs, i) ==
  IF i > Len(figs) THEN <<>>
  ELSE warnings \o figure_printed(figs[i]) \o all_printed(warnings, figs, i + 1)

\* analyze_all_pairs (line 326: pair_key.replace('Pair', '')) and
\* analyze_all_12well_pairs (for pair_num in [1, 2, 8], then str()).
all_pair_numbers(cls) ==
  IF cls = PlateMapStrainAnalyzer
  THEN [i \in DOMAIN strain_pairs(cls) |->
          SubSeq(strain_pairs(cls)[i].key, Len(PairText) + 1,
                 Len(strain_pairs(cls)[i].key))]
  ELSE << py_str(1), py_str(2), py_str(8) >>

(***************************************************************************)
(* The inputs of an analyzer.                                              *)
(***************************************************************************)
Wells == << << "A", "1" >>, << "A", "2" >>, << "A", "3" >>, << "A", "4" >> >>

Cond(text) == [condition |-> text, missing |-> FALSE]

MissingCond == [condition |-> <<>>, missing |-> TRUE]

C_1_YPD_1_1 == << "C", "_", "1", "_", "Y", "P", "D", "_", "1", "_", "1" >>

C_1_YPD_1_2 == << "C", "_", "1", "_", "Y", "P", "D", "_", "1", "_", "2" >>

C_1_SC_2_1 == << "C", "_", "1", "_", "S", "C", "_", "2", "_", "1" >>

C_1_YPD_1_T2 == << "C", "_", "1", "_", "Y", "P", "D", "_", "1", "_", "T", "2" >>

P_1_YPD_1_1 == << "P", "_", "1", "_", "Y", "P", "D", "_", "1", "_", "1" >>

P_SALT_P1_2 == << "P", "_", "S", "A", "L", "T", "_", "P", "1", "_", "2" >>

X_SALT == << "X", "_", "S", "A", "L", "T" >>

C_2_SC_1_1_blanks == << " ", "C", "_", "2", "_", "S", "C", "_", "1", "_", "1", " " >>

BLANK == << "B", "L", "A", "N", "K" >>

P_1_YPD == << "P", "_", "1", "_", "Y", "P", "D" >>

X_1_YPD_1_1 == << "X", "_", "1", "_", "Y", "P", "D", "_", "1", "_", "1" >>

\* The condition cells the loader is tried on.
LoadConds ==
  { Cond(C_1_YPD_1_2), Cond(P_1_YPD_1_1), Cond(P_SALT_P1_2), Cond(X_SALT),
    Cond(C_2_SC_1_1_blanks), Cond(BLANK), Cond(P_1_YPD), Cond(X_1_YPD_1_1),
    MissingCond }

\* The condition cells the joiner and the normaliser are tried on.
JoinConds ==
  { Cond(C_1_YPD_1_1), Cond(C_1_YPD_1_2), Cond(C_1_SC_2_1), Cond(C_1_YPD_1_T2) }

\* The plate-map files of up to MaxRows rows: row i is plate 1, well Wells[i].
PlateMapFiles(conds) ==
  UNION { { [i \in 1..n |->
               [PLATE |-> 1, WELL |-> Wells[i], condition |-> f[i].condition,
                missing |-> f[i].missing]] : f \in [1..n -> conds] }
          : n \in 0..MaxRows }

P3B3 == << "P", "3", "B", "3" >>

P3H1 == << "P", "3", "H", "1" >>

P3C1 == << "P", "3", "C", "1" >>

Col_P1_A1 == << "C", "o", "e", "x", "P", "1", "_", "A", "1" >>

Col_P01_A2 == << "C", "o", "e", "x", "P", "0", "1", "_", "A", "2" >>

Col_P2_A1 == << "C", "o", "e", "x", "P", "2", "_", "A", "1" >>

Col_Undetermined == << "U", "n", "d", "e", "t", "e", "r", "m", "i", "n", "e", "d" >>

Columns == << BCID, Col_P1_A1, Col_P01_A2, Col_P2_A1, Col_Undetermined >>

\* The counts of one sample for the barcodes P3B3, P3H1, P3C1.
CountVectors ==
  { << 0, 0, 0 >>, << 2, 1, 3 >>, << 0, 0, 3 >>, << -1, 2, 0 >> }

Table(v1, v2) ==
  [columns |-> Columns,
   rows |-> << [bcid |-> P3B3, counts |-> << v1[1], v2[1], 1, 1 >>],
               [bcid |-> P3H1, counts |-> << v1[2], v2[2], 1, 1 >>],
               [bcid |-> P3C1, counts |-> << v1[3], v2[3], 1, 1 >>] >>]

Tables == { Table(v1, v2) : v1 \in CountVectors, v2 \in CountVectors }

PairNumbers == { << "1" >>, << "2" >> }

NoResult ==
  [op |-> "", arg |-> <<>>, status |-> "", df |-> <<>>, figures |-> <<>>]

NoTable == [columns |-> <<>>, rows |-> <<>>]

\* The analyzer's variables while only the rename tool runs.
AnalysisIdle ==
  /\ analyzer = ""
  /\ platemap_csv = <<>>
  /\ barcode_data = NoTable
  /\ plate_map = {}
  /\ plate_map0 = {}
  /\ apc = "new"
  /\ result = NoResult
  /\ aprinted = <<>>

\* The rename tool's variables while only an analyzer runs.
RenameIdle ==
  /\ fs = {}
  /\ dirs = {}
  /\ pc = "off"
  /\ args = NoArgs
  /\ files_to_rename = <<>>
  /\ n_matched = 0
  /\ success_count = 0
  /\ error_count = 0
  /\ printed = <<>>
  /\ fs0 = {}
  /\ dirs0 = {}
  /\ io_errors = 0
  /\ runs = 0

AnalysisInit(files, tables) ==
  /\ analyzer = ""
  /\ platemap_csv \in files
  /\ barcode_data \in tables
  /\ plate_map = {}
  /\ plate_map0 = {}
  /\ apc = "new"
  /\ result = NoResult
  /\ aprinted = <<>>

(***************************************************************************)
(* The analyzer's methods.                                                 *)
(***************************************************************************)
\* __init__: reads the two files and builds the plate map.
Construct ==
  /\ apc = "new"
  /\ \E cls \in {PlateMapStrainAnalyzer, TwelveWellAnalyzer} :
       LET loaded == load_plate_map(cls, platemap_csv) IN
       /\ analyzer' = cls
       /\ apc' = IF loaded.raised THEN "raised" ELSE "ready"
       /\ plate_map' = loaded.plate_map
       /\ plate_map0' = loaded.plate_map
       /\ aprinted' = load_printed(cls, loaded)
  /\ UNCHANGED << platemap_csv, barcode_data, result >>
  /\ UNCHANGED renameVars

process_all_data ==
  /\ apc = "ready"
  /\ result' = [op |-> "process_all_data", arg |-> <<>>, status |-> "returned",
                df |-> process_all_data_df(analyzer, barcode_data, plate_map),
                figures |-> <<>>]
  /\ aprinted' = process_printed(analyzer, barcode_data, plate_map, 1)
  /\ plate_map' = plate_map_after_process(plate_map)
  /\ UNCHANGED << analyzer, platemap_csv, barcode_data, plate_map0, apc >>
  /\ UNCHANGED renameVars

create_pair_plot ==
  /\ apc = "ready"
  /\ \E pair_number \in PairNumbers :
       LET df == process_all_data_df(analyzer, barcode_data, plate_map)
           fig == pair_figure(analyzer, df, pair_number)
       IN
       /\ result' = [op |-> "create_pair_plot", arg |-> pair_number,
                     status |-> fig.status, df |-> df, figures |-> << fig >>]
       /\ aprinted' = process_printed(analyzer, barcode_data, plate_map, 1)
                        \o figure_printed(fig)
  /\ plate_map' = plate_map_after_process(plate_map)
  /\ UNCHANGED << analyzer, platemap_csv, barcode_data, plate_map0, apc >>
  /\ UNCHANGED renameVars

\* analyze_all_pairs / analyze_all_12well_pairs: create_pair_plot for each
\* pair in turn; a KeyError of the first call ends the loop.
analyze_all_pairs ==
  /\ apc = "ready"
  /\ LET df == process_all_data_df(analyzer, barcode_data, plate_map)
         nums == all_pair_numbers(analyzer)
         figs == [i \in (IF df = <<>> THEN 1..1 ELSE DOMAIN nums) |->
                    pair_figure(analyzer, df, nums[i])]
     IN
     /\ result' = [op |-> "analyze_all_pairs", arg |-> <<>>,
                   status |-> IF df = <<>> THEN "KeyError" ELSE "returned",
                   df |-> df, figures |-> figs]
     /\ aprinted' = all_printed(process_printed(analyzer, barcode_data, plate_map, 1),
                                figs, 1)
  /\ plate_map' = plate_map_after_process(plate_map)
  /\ UNCHANGED << analyzer, platemap_csv, barcode_data, plate_map0, apc >>
  /\ UNCHANGED renameVars

export_processed_data ==
  /\ apc = "ready"
  /\ result' = [op |-> "export_processed_data", arg |-> <<>>, status |-> "returned",
                df |-> process_all_data_df(analyzer, barcode_data, plate_map),
                figures |-> <<>>]
  /\ aprinted' = process_printed(analyzer, barcode_data, plate_map, 1)
                   \o << [msg |-> "Data exported", text |-> <<>>] >>
  /\ plate_map' = plate_map_after_process(plate_map)
  /\ UNCHANGED << analyzer, platemap_csv, barcode_data, plate_map0, apc >>
  /\ UNCHANGED renameVars

\* get_pair_summary (Strain_competition.py only): the pair's rows, or None.
get_pair_summary ==
  /\ apc = "ready"
  /\ analyzer = PlateMapStrainAnalyzer
  /\ \E pair_number \in PairNumbers :
       LET df == process_all_data_df(analyzer, barcode_data, plate_map)
           IsPair(r) == r.pair = pair_number
           pair_data == SelectSeq(df, IsPair)
       IN
       /\ result' = [op |-> "get_pair_summary", arg |-> pair_number,
                     status |-> IF df = <<>> THEN "KeyError"
                                ELSE IF pair_data = <<>> THEN "No data"
                                ELSE "returned",
                     df |-> pair_data, figures |-> <<>>]
       /\ aprinted' = process_printed(analyzer, barcode_data, plate_map, 1)
                        \o (IF df = <<>> THEN <<>>
                            ELSE IF pair_data = <<>>
                            THEN << [msg |-> "No data", text |-> pair_number] >>
                            ELSE << [msg |-> "Summary", text |-> pair_number] >>)
  /\ plate_map' = plate_map_after_process(plate_map)
  /\ UNCHANGED << analyzer, platemap_csv, barcode_data, plate_map0, apc >>
  /\ UNCHANGED renameVars

AnalysisNext ==
  \/ Construct
  \/ process_all_data
  \/ create_pair_plot
  \/ analyze_all_pairs
  \/ export_processed_data
  \/ get_pair_summary

(***************************************************************************)
(* The specifications.                                                     *)
(***************************************************************************)
\* The rename tool alone: no analyzer is constructed.
\* The naming on one file at a time: the sample is any combination of a run
\* of letters, a run of digits and a tail, or one of three that begin
\* otherwise.
NameLetters == { <<>>, << "A" >>, << "A", "B" >> }

NameDigits ==
  { <<>>, << "1" >>, << "0", "1" >>, << "1", "0" >>, << "1", "2", "3" >> }

NameTails == { <<>>, << "b" >>, << "_", "x" >> }

NameSamples ==
  ({ l \o d \o t : l \in NameLetters, d \in NameDigits, t \in NameTails }
     \ { <<>> })
    \cup { << "a", "1" >>, << "1", "A" >>, << "n", "e", "g" >> }

NameReads == { << "1" >>, << "2" >> }

InitNames ==
  /\ pc = "idle"
  /\ \E read \in NameReads, sample \in NameSamples :
       fs = {File("in", Raw(read, CoexP1, << "1" >>, sample),
                  Raw(read, CoexP1, << "1" >>, sample))}
  /\ dirs = {"in"}
  /\ args = NoArgs
  /\ files_to_rename = <<>>
  /\ n_matched = 0
  /\ success_count = 0
  /\ error_count = 0
  /\ printed = <<>>
  /\ fs0 = fs
  /\ dirs0 = dirs
  /\ io_errors = 0
  /\ runs = 0
  /\ AnalysisIdle

SpecNames == InitNames /\ [][RenameNext]_vars

InitRename == RenameInit /\ AnalysisIdle

SpecRename == InitRename /\ [][RenameNext]_vars

\* The loader on every kind of plate-map row, one table.
InitLoad ==
  /\ RenameIdle
  /\ AnalysisInit(PlateMapFiles(LoadConds), {Table(<< 2, 1, 3 >>, << 0, 0, 3 >>)})

SpecLoad == InitLoad /\ [][AnalysisNext]_vars

\* The joiner and the normaliser on every table, fewer kinds of row.
InitAnalysis ==
  /\ RenameIdle
  /\ AnalysisInit(PlateMapFiles(JoinConds), Tables)

SpecAnalysis == InitAnalysis /\ [][AnalysisNext]_vars

\* The plotter on up to MaxConds conditions of pair 1: row i is the well
\* PlotWells[i] in its own condition or in the first one, and every well has
\* a sample column with counts for both strains and a third barcode.
PlotWells == << << "A", "1" >>, << "A", "2" >>, << "A", "3" >>, << "A", "4" >>, << "A", "5" >>, << "A", "6" >>, << "A", "7" >>, << "A", "8" >> >>

PlotConditions == << << "Y", "P", "D" >>, << "S", "C" >>, << "R", "A", "F" >>, << "G", "L", "Y" >>, << "S", "U", "C" >>, << "M", "A", "L" >>, << "E", "T", "H" >>, << "L", "A", "C" >> >>

ControlRow(condition) ==
  << "C", "_", "1", "_" >> \o condition \o << "_", "1", "_", "1" >>

PlotFiles ==
  UNION { { [i \in 1..n |->
               [PLATE |-> 1, WELL |-> PlotWells[i],
                condition |-> ControlRow(PlotConditions[IF own[i] THEN i ELSE 1]),
                missing |-> FALSE]] : own \in [1..n -> BOOLEAN] }
          : n \in 0..MaxConds }

PlotTable ==
  [columns |-> << BCID >> \o [i \in DOMAIN PlotWells |->
                               CoexP \o << "1", "_" >> \o PlotWells[i]],
   rows |-> << [bcid |-> P3B3, counts |-> [i \in DOMAIN PlotWells |-> 2]],
               [bcid |-> P3H1, counts |-> [i \in DOMAIN PlotWells |-> 1]],
               [bcid |-> P3C1, counts |-> [i \in DOMAIN PlotWells |-> 3]] >>]

InitPlot ==
  /\ RenameIdle
  /\ AnalysisInit(PlotFiles, {PlotTable})

SpecPlot == InitPlot /\ [][AnalysisNext]_vars


(***************************************************************************)
(* Properties of rename_fastq_files.                                       *)
(***************************************************************************)
\* C1: a call with dry_run=True leaves the file system as it found it: no
\* entry is created, removed or changed and no directory is created, for
\* every input directory, output_dir and use_symlinks.
C1_DryRunLeavesFileSystem ==
  (runs >= 1 /\ args.dry_run) => (fs = fs0 /\ dirs = dirs0)

\* The names of the module docstring (lines 4-5) and the names it promises.
DocNew_A1_R1 == << "C", "o", "e", "x", "P", "1", "_", "A", "1", "_", "R", "1", ".", "f", "a", "s", "t", "q", ".", "g", "z" >>

DocNew_A1_R2 == << "C", "o", "e", "x", "P", "1", "_", "A", "1", "_", "R", "2", ".", "f", "a", "s", "t", "q", ".", "g", "z" >>

\* <project>_<sample>_R<k>.fastq.gz, the sample as it stands in the name.
ProjectSampleRead(read, project, sample) ==
  project \o << "_" >> \o sample \o << "_", "R" >> \o read \o FastqGz

\* The file names of the pool by their parts: read, project, number, sample.
PoolParts ==
  { << << "1" >>, CoexP1, << "1" >>, << "A", "1" >> >>,
    << << "2" >>, CoexP1, << "1" >>, << "A", "1" >> >>,
    << << "1" >>, CoexP1, << "2" >>, << "A", "0", "1" >> >>,
    << << "2" >>, CoexP1, << "1", "0" >>, << "A", "1", "0" >> >>,
    << << "1" >>, CoexP1, << "3" >>, << "n", "e", "g" >> >> }

\* C2: every file named 000000000-GRN6V_l01_n0<k>_<project>_<number>__<sample>
\* .fastq.gz with k in {1,2} is given the new name <project>_<sample>_R<k>
\* .fastq.gz; the two names of the docstring become CoexP1_A1_R1.fastq.gz and
\* CoexP1_A1_R2.fastq.gz.
C2_NewNameIsProjectSampleRead ==
  \A i \in DOMAIN files_to_rename :
    LET old == files_to_rename[i][1]
        new == files_to_rename[i][2]
    IN
    /\ \A t \in PoolParts :
         old.name = Raw(t[1], t[2], t[3], t[4])
           => new.name = ProjectSampleRead(t[1], t[2], t[4])
    /\ (old.name = F_A1_n01 => new.name = DocNew_A1_R1)
    /\ (old.name = F_A1_n02 => new.name = DocNew_A1_R2)

\* One successful iteration of the loop, by its effect on the file system.
C3_Step ==
  (pc = "loop" /\ success_count' = success_count + 1) =>
    LET old == Head(files_to_rename)[1]
        new == Head(files_to_rename)[2]
        src == At(fs, old)
    IN
    /\ Cardinality(src) = 1
    /\ At(fs, new) = {}
    /\ IF ~Truthy(args.output_dir)
       THEN /\ new.dir = old.dir
            /\ At(fs', old) = {}
            /\ fs' = (fs \ src) \cup {[e EXCEPT !.name = new.name] : e \in src}
       ELSE IF ~args.use_symlinks
       THEN fs' = fs \cup {File(args.output_dir, new.name, e.data) : e \in src}
       ELSE fs' = fs \cup
              {Link(args.output_dir, new.name,
                    [dir |-> old.dir, name |-> old.name, abs |-> TRUE])}

C3_SourcesRemain ==
  (runs >= 1 /\ Truthy(args.output_dir)) =>
    \A e \in fs0 : e.dir = args.fastq_dir => e \in fs

\* C3: the mode decides the operation on each matched file: without
\* output_dir the entry is renamed in place (the old name goes, the new name
\* holds the same entry in the same directory); with output_dir and
\* use_symlinks=False a file with the source's bytes is added to output_dir
\* under the new name; with output_dir and use_symlinks=True a link to the
\* source's absolute path is added to output_dir under the new name; and in
\* both output_dir modes every entry of the input directory stays as it was.
C3_ModeDecidesOperation == [][C3_Step]_vars /\ [](C3_SourcesRemain)

C3_Witness ==
  /\ pc = "done"
  /\ args.output_dir = "out"
  /\ args.use_symlinks
  /\ ~args.dry_run
  /\ success_count = 2
  /\ \E e \in fs : e.dir = "out" /\ e.kind = "link" /\ e.target.name = F_A1_n02

\* A name the pattern cannot match, said without the pattern: it does not
\* begin with the fixed head and read 1 or 2, or it is no .fastq.gz.
NotGRN6V(name) ==
  \/ ~EndsWith(name, FastqGz)
  \/ /\ ~StartsWith(name, PatternHead \o << "1", "_" >>)
     /\ ~StartsWith(name, PatternHead \o << "2", "_" >>)

\* C4: an entry of the input directory whose name does not match the pattern
\* is left as it was, and nothing is copied from it (no new file holds its
\* bytes; a file left empty by a failed copy holds none) or linked to it, in
\* any mode; when no name matches, the call changes no entry and counts no file.
C4_NonMatchingUntouched ==
  runs >= 1 =>
    /\ \A e \in fs0 :
         (e.dir = args.fastq_dir /\ NotGRN6V(e.name)) =>
           /\ e \in fs
           /\ \A x \in fs \ fs0 :
                /\ (x.kind = "file" /\ x.data # <<>>) => x.data # e.data
                /\ ~(x.target.dir = e.dir /\ x.target.name = e.name)
    /\ (\A e \in fs0 : e.dir = args.fastq_dir => NotGRN6V(e.name)) =>
         (fs = fs0 /\ pc = "done" /\ success_count = 0 /\ error_count = 0)

C4_Witness ==
  /\ pc = "done"
  /\ ~args.dry_run
  /\ success_count = 1
  /\ File("in", F_A1_n03, F_A1_n03) \in fs0
  /\ File("in", F_A1_n03, F_A1_n03) \in fs
  /\ fs # fs0

\* C5: when the input directory does not exist the call prints the error and
\* returns: no directory is made, no entry changes, nothing is counted.
C5_MissingInputDirectory ==
  (runs >= 1 /\ args.fastq_dir \notin dirs0) =>
    /\ pc = "done"
    /\ dirs = dirs0
    /\ fs = fs0
    /\ success_count = 0
    /\ error_count = 0
    /\ \E i \in DOMAIN printed : printed[i].msg = "Error: Directory does not exist"

C5_Witness ==
  /\ runs >= 1
  /\ pc = "done"
  /\ args.fastq_dir = "gone"
  /\ args.output_dir = "out"
  /\ "out" \notin dirs
  /\ ~args.dry_run

\* The first step of main when --symlinks comes without --output-dir is the
\* first step of main without --symlinks, the warning apart.
C6_Step ==
  \A fd \in FastqDirs, od \in OutputDirs, dr \in BOOLEAN :
    (/\ pc = "idle"
     /\ ~Truthy(od)
     /\ Call(fd, od, dr, main_symlinks(od, TRUE), main_warning(od, TRUE)))
      => Call(fd, od, dr, FALSE, IgnoringSymlinks)

C6_NoLinkWithoutOutputDir ==
  (runs >= 1 /\ ~Truthy(args.output_dir)) =>
    /\ \A e \in fs \ fs0 : e.kind # "link"
    /\ \A i \in DOMAIN printed :
         printed[i].msg \notin {"Symlinked", "Would symlink", "Mode: Creating symlinks"}
    /\ (printed # <<>> /\ << Head(printed) >> = IgnoringSymlinks) => ~args.use_symlinks

\* C6: --symlinks without --output-dir is ignored: the run goes as the run
\* without --symlinks (files renamed in place), and no link is made unless an
\* output directory is given.
C6_SymlinksNeedOutputDir == [][C6_Step]_vars /\ [](C6_NoLinkWithoutOutputDir)

C6_Witness ==
  /\ pc = "done"
  /\ printed # <<>>
  /\ << Head(printed) >> = IgnoringSymlinks
  /\ ~args.dry_run
  /\ success_count = 2
  /\ File("in", T_A01_R1, F_A1_n01) \in fs

(***************************************************************************)
(* The data joiner.                                                        *)
(***************************************************************************)
\* The sample columns (columns[1:]) paired with the barcode rows.
Cells ==
  { << j, i >> : j \in 1..(Len(barcode_data.columns) - 1),
                 i \in DOMAIN barcode_data.rows }

CellCount(c) == barcode_data.rows[c[2]].counts[c[1]]

\* The plate-map entries of the well a sample column names (none when the
\* column does not parse or the well is not in the plate map).
CellEntries(c) ==
  LET parsed == parse_column_name(barcode_data.columns[c[1] + 1]) IN
  IF parsed.ok THEN Lookup(plate_map, Key(parsed.plate, parsed.well)) ELSE {}

CellEntry(c) == CHOOSE e \in CellEntries(c) : TRUE

Emitted(c) ==
  /\ CellEntries(c) # {}
  /\ py_int(CellEntry(c).timepoint).ok
  /\ CellCount(c) > 0

EmittedRecord(c) ==
  [barcode |-> barcode_data.rows[c[2]].bcid,
   frequency |-> CellCount(c),
   pair |-> CellEntry(c).pair,
   condition |-> CellEntry(c).condition,
   timepoint |-> py_int(CellEntry(c).timepoint).value,
   replicate |-> CellEntry(c).replicate]

ExpectedStrains(pair_number) ==
  LET e == CHOOSE x \in PairEntries(analyzer, pair_number) : TRUE IN
  << remove_char(e.strains[1], "_"), remove_char(e.strains[2], "_") >>

\* The summed count of one barcode in one (timepoint, replicate) group of
\* one condition of one pair, from the joined records.
GroupCount(df, pair_number, condition, tp, rep, barcode) ==
  LET In(r) == /\ r.pair = pair_number
               /\ r.condition = condition
               /\ r.timepoint = tp
               /\ r.replicate = rep
               /\ r.barcode = barcode
      rows == SelectSeq(df, In)
  IN SumSeq([k \in DOMAIN rows |-> rows[k].frequency])

GroupNormalized(df, fig, ax, tp, rep) ==
  LET e == ExpectedStrains(fig.pair)
      s1 == GroupCount(df, fig.pair, ax.condition, tp, rep, e[1])
      s2 == GroupCount(df, fig.pair, ax.condition, tp, rep, e[2])
      rows == {r \in ax.grouped : r.timepoint = tp /\ r.replicate = rep}
  IN
  IF s1 + s2 > 0
  THEN /\ \A r \in rows :
            /\ r.frequency.den > 0
            /\ r.barcode = e[1] => r.frequency.num * (s1 + s2) = s1 * r.frequency.den
            /\ r.barcode = e[2] => r.frequency.num * (s1 + s2) = s2 * r.frequency.den
            /\ r.barcode \notin {e[1], e[2]} => r.frequency.num = 0
       /\ \A r1 \in rows, r2 \in rows :
            r1.barcode = e[1] /\ r2.barcode = e[2] =>
              r1.frequency.num * r2.frequency.den + r2.frequency.num * r1.frequency.den
                = r1.frequency.den * r2.frequency.den
  ELSE \A r \in rows :
         /\ r.frequency.den = 1
         /\ r.frequency.num
              = GroupCount(df, fig.pair, ax.condition, tp, rep, r.barcode)

\* C8: in every figure create_pair_plot draws, each (timepoint, replicate)
\* group of each condition has, with s1 and s2 the summed counts of the
\* pair's two expected strains: when s1 + s2 > 0 the strains' frequencies
\* s1/(s1+s2) and s2/(s1+s2), summing to 1, and frequency 0 for every other
\* barcode; when s1 + s2 = 0 every frequency still the summed count. Every
\* group of the pair's records is in the figure.
C8_TwoStrainNormalisation ==
  \A f \in DOMAIN result.figures :
    LET fig == result.figures[f] IN
    fig.status = "saved" =>
      /\ \A a \in DOMAIN fig.axes :
           \A r \in fig.axes[a].grouped :
             GroupNormalized(result.df, fig, fig.axes[a], r.timepoint, r.replicate)
      /\ \A k \in DOMAIN result.df :
           result.df[k].pair = fig.pair =>
             \E a \in DOMAIN fig.axes :
               /\ fig.axes[a].condition = result.df[k].condition
               /\ \E r \in fig.axes[a].grouped :
                    /\ r.timepoint = result.df[k].timepoint
                    /\ r.replicate = result.df[k].replicate
                    /\ r.barcode = result.df[k].barcode

\* create_pair_plot drew a figure with a group holding both strains and a
\* third barcode, and a group holding neither strain.
C8_Witness ==
  /\ result.op = "create_pair_plot"
  /\ result.status = "saved"
  /\ LET fig == result.figures[1]
         e == ExpectedStrains(fig.pair)
     IN \E a \in DOMAIN fig.axes, b \in DOMAIN fig.axes :
          /\ \E r1 \in fig.axes[a].grouped, r2 \in fig.axes[a].grouped,
                r3 \in fig.axes[a].grouped :
               /\ r1.barcode = e[1] /\ r1.frequency.num > 0
               /\ r2.barcode = e[2] /\ r2.frequency.num > 0
               /\ r3.barcode \notin {e[1], e[2]}
               /\ r1.timepoint = r2.timepoint /\ r1.replicate = r2.replicate
               /\ r1.timepoint = r3.timepoint /\ r1.replicate = r3.replicate
          /\ \E r \in fig.axes[b].grouped :
               /\ r.frequency.num > 0
               /\ \A x \in fig.axes[b].grouped :
                    x.timepoint = r.timepoint /\ x.replicate = r.replicate =>
                      x.barcode \notin {e[1], e[2]}

(***************************************************************************)
(* The plate-map loader.                                                   *)
(***************************************************************************)
\* A row whose condition cell is missing, or splits neither into the five
\* parts type_pair_condition_replicate_timepoint nor into a SALT/GAL form.
Malformed(row) ==
  \/ row.missing
  \/ LET parts == Split(strip(row.condition), "_") IN
     /\ Len(parts) < 5
     /\ ~(Len(parts) > 1 /\ parts[2] \in {SALT, GAL})

\* A control row in the five-part form, which both loaders keep.
WellFormedControl(row) ==
  /\ ~row.missing
  /\ LET parts == Split(strip(row.condition), "_") IN
     Len(parts) >= 5 /\ parts[1] = << "C" >>

\* C9 as stated: once the constructor has run, every malformed plate-map row
\* has been skipped with a printed warning: the load did not fail, the row's
\* key is not in the plate map, a warning was printed, and the well-formed
\* control rows are in the plate map. Violated: neither loader prints a
\* warning, and a missing condition cell makes the Strain_competition.py
\* loader raise.
C9_MalformedRowSkippedWithWarning ==
  (apc # "new" /\ result.op = "") =>
    \A i \in DOMAIN platemap_csv :
      Malformed(platemap_csv[i]) =>
        /\ apc = "ready"
        /\ Lookup(plate_map, Key(platemap_csv[i].PLATE, platemap_csv[i].WELL)) = {}
        /\ \E k \in DOMAIN aprinted :
             aprinted[k].msg # "Loaded wells from 12-well plates"
        /\ \A j \in DOMAIN platemap_csv :
             WellFormedControl(platemap_csv[j]) =>
               Lookup(plate_map, Key(platemap_csv[j].PLATE, platemap_csv[j].WELL)) # {}

(***************************************************************************)
(* The plate map after construction.                                       *)
(***************************************************************************)
C10_Step ==
  apc = "ready" => plate_map' = plate_map

C10_AsConstructed ==
  apc = "ready" => plate_map = plate_map0

\* C10: the plate map is built by the constructor and by nothing else: no
\* call of process_all_data, create_pair_plot, analyze_all_pairs /
\* analyze_all_12well_pairs, export_processed_data or get_pair_summary
\* changes it, and after any sequence of them it is the plate map the
\* constructor built.
C10_PlateMapImmutable ==
  [][C10_Step]_vars /\ [](C10_AsConstructed)

\* A method has run on a plate map with entries, one of them with a
\* timepoint that is not an integer, and has returned records.
C10_Witness ==
  /\ apc = "ready"
  /\ result.op \in {"process_all_data", "create_pair_plot", "analyze_all_pairs",
                    "export_processed_data", "get_pair_summary"}
  /\ result.df # <<>>
  /\ \E e \in plate_map : ~py_int(e.timepoint).ok
  /\ plate_map = plate_map0

(***************************************************************************)
(* The subplot grid.                                                       *)
(***************************************************************************)
\* The distinct conditions among the pair's joined records.
PairConditions(df, pair_number) ==
  {df[k].condition : k \in {i \in DOMAIN df : df[i].pair = pair_number}}

\* C11: every figure create_pair_plot draws for a defined pair with data has,
\* with n >= 1 the number of distinct conditions of the pair's records, a
\* grid of at least n axes, the n conditions drawn one per axis on the first
\* n axes (none left out by the break), and exactly the axes n+1.. hidden.
C11_OneAxisPerCondition ==
  \A f \in DOMAIN result.figures :
    LET fig == result.figures[f]
        conds == PairConditions(result.df, fig.pair)
        n == Cardinality(conds)
    IN fig.status = "saved" =>
         /\ n >= 1
         /\ fig.n_axes >= n
         /\ Len(fig.axes) = n
         /\ {fig.axes[a].condition : a \in DOMAIN fig.axes} = conds
         /\ \A a \in DOMAIN fig.axes, b \in DOMAIN fig.axes :
              fig.axes[a].condition = fig.axes[b].condition => a = b
         /\ fig.hidden = {i \in 1..fig.n_axes : i > n}

\* create_pair_plot drew a pair of more than four conditions on a grid of
\* three columns with an axis to spare.
C11_Witness ==
  /\ result.op = "create_pair_plot"
  /\ result.status = "saved"
  /\ Cardinality(PairConditions(result.df, result.arg)) > 4
  /\ Len(result.figures[1].axes) > 4
  /\ result.figures[1].hidden # {}

(***************************************************************************)
(* Existing targets.                                                       *)
(***************************************************************************)
\* A matched file that finds its new path taken in a run that is not a dry
\* run is passed over: the file system stays as it is, the skip is counted
\* as an error and as nothing else, and the loop goes on with the next file.
C12_SkipStep ==
  (/\ pc = "loop"
   /\ files_to_rename # <<>>
   /\ ~args.dry_run
   /\ At(fs, Head(files_to_rename)[2]) # {}) =>
    /\ fs' = fs
    /\ error_count' = error_count + 1
    /\ success_count' = success_count
    /\ files_to_rename' = Tail(files_to_rename)
    /\ printed' = Append(printed,
                         Msg("Warning: already exists, skipping",
                             Head(files_to_rename)[1].name,
                             Head(files_to_rename)[2].name))

\* No step puts another entry where one already is: whatever is at a path
\* after the step is what was there before.
C12_NothingReplaced ==
  \A e \in fs : \A x \in fs' :
    (x.dir = e.dir /\ x.name = e.name) => x = e

\* C12: rename_fastq_files never overwrites or replaces an existing target:
\* when a matched file is processed and a file or symlink, dangling ones
\* included, is already at its new path, the source is skipped, the target
\* and the source stay unchanged and the skip is counted as an error; and no
\* step of any run replaces an entry that exists.
C12_NeverOverwrites ==
  [][C12_SkipStep /\ C12_NothingReplaced]_vars

\* A copy or symlink run has just skipped a source whose new path in the
\* output directory holds a dangling symlink.
C12_Witness ==
  /\ pc = "loop"
  /\ ~args.dry_run
  /\ error_count > 0
  /\ printed # <<>>
  /\ LET last == printed[Len(printed)] IN
     /\ last.msg = "Warning: already exists, skipping"
     /\ \E e \in fs :
          /\ e.dir = "out" /\ e.name = last.new
          /\ e.kind = "link"
          /\ ~exists(fs, Path(e.dir, e.name))
     /\ \E e \in fs : e.dir = args.fastq_dir /\ e.name = last.old

(***************************************************************************)
(* The zero-padded well.                                                   *)
(***************************************************************************)
\* The sample is uppercase letters followed by digits and nothing else, the
\* letters being its first k characters.
LettersThenDigits(sample, k) ==
  /\ k >= 1
  /\ k < Len(sample)
  /\ \A i \in 1..k : sample[i] \in UpperCase
  /\ \A i \in (k + 1)..Len(sample) : sample[i] \in Digits

\* The sample begins with uppercase letters followed by a digit.
BeginsWithWell(sample) ==
  \E k \in 1..(Len(sample) - 1) :
    /\ \A i \in 1..k : sample[i] \in UpperCase
    /\ sample[k + 1] \in Digits

\* p is d left-padded with zeros to at least two characters.
PaddedToTwo(d, p) ==
  /\ Len(p) = (IF Len(d) < 2 THEN 2 ELSE Len(d))
  /\ \A i \in 1..Len(d) : p[Len(p) - Len(d) + i] = d[i]
  /\ \A i \in 1..(Len(p) - Len(d)) : p[i] = "0"

\* The new name given to the file of a sample, if the scan has one.
NewNamesOf(read, sample) ==
  { files_to_rename[i][2].name :
      i \in { j \in DOMAIN files_to_rename :
                files_to_rename[j][1].name = Raw(read, CoexP1, << "1" >>, sample) } }

MatchedAtCall ==
  { e.name : e \in { x \in fs0 : /\ x.dir = args.fastq_dir
                                 /\ EndsWith(x.name, FastqGz)
                                 /\ pattern_match(x.name).ok } }

\* The messages of the loop that report the outcome for one file.
OutcomeMessages ==
  { "Renamed", "Copied", "Symlinked", "Warning: already exists, skipping",
    "Error processing" }

OutcomesOf(name) ==
  { k \in DOMAIN printed :
      printed[k].msg \in OutcomeMessages /\ printed[k].old = name }

\* In a run that is not a dry run every file is counted once: the files
\* done, the files failed and the files still to come are the matched files.
C14_Counted ==
  (runs >= 1 /\ ~args.dry_run /\ args.fastq_dir \in dirs0) =>
    /\ success_count + error_count + Len(files_to_rename)
         = Cardinality(MatchedAtCall)
    /\ pc = "done" =>
         /\ files_to_rename = <<>>
         /\ success_count + error_count = Cardinality(MatchedAtCall)
         /\ \A name \in MatchedAtCall : Cardinality(OutcomesOf(name)) = 1

\* An iteration of a run that is not a dry run takes the first file still to
\* come, counts it as done or as failed, and leaves the rest to come; the
\* loop ends only when no file is left.
C14_Iteration ==
  /\ (pc = "loop" /\ files_to_rename # <<>> /\ ~args.dry_run) =>
       /\ pc' = "loop"
       /\ files_to_rename' = Tail(files_to_rename)
       /\ \/ success_count' = success_count + 1 /\ error_count' = error_count
          \/ success_count' = success_count /\ error_count' = error_count + 1
  /\ (pc = "loop" /\ pc' = "done") => files_to_rename = <<>>

\* C14: a failure on one matched file, be it an existing target or an
\* exception from rename, copy or symlink, does not stop the run: every
\* matched file is attempted exactly once, and when a run that is not a dry
\* run finishes success_count + error_count is the number of matched files.
C14_FailureDoesNotStop ==
  [][C14_Iteration]_vars /\ [](C14_Counted)

\* A run has finished in which a file failed, on an existing target or on an
\* exception, and a file after it was done.
C14_Witness ==
  /\ pc = "done"
  /\ ~args.dry_run
  /\ error_count > 0
  /\ success_count > 0
  /\ \E i \in DOMAIN printed, j \in DOMAIN printed :
       /\ i < j
       /\ printed[i].msg \in {"Warning: already exists, skipping", "Error processing"}
       /\ printed[j].msg \in {"Renamed", "Copied", "Symlinked"}

(***************************************************************************)
(* Distinct files, distinct new names.                                     *)
(***************************************************************************)
\* Two raw names that the pattern reads differently in project, sample name
\* or read number.
DifferentReadFiles(n1, n2) ==
  LET m1 == pattern_match(n1)
      m2 == pattern_match(n2)
  IN \/ m1.project_name # m2.project_name
     \/ m1.sample_name # m2.sample_name
     \/ m1.read_num # m2.read_num

\* C15 as stated: two matched files of a run that differ in project, sample
\* name or read number never get the same new name, and a file is skipped
\* for an existing target only if the target was there before the run.
\* Violated: the samples A1 and A01 of one project and read both become A01,
\* and the second of them is skipped because of the first.
C15_NewNamesInjective ==
  /\ \A i \in DOMAIN files_to_rename, j \in DOMAIN files_to_rename :
       (i # j /\ DifferentReadFiles(files_to_rename[i][1].name,
                                    files_to_rename[j][1].name))
         => files_to_rename[i][2].name # files_to_rename[j][2].name
  /\ \A k \in DOMAIN printed :
       printed[k].msg = "Warning: already exists, skipping" =>
         At(fs0, Path(output_path(args.fastq_dir, args.output_dir), printed[k].new)) # {}

(***************************************************************************)
(* The same command a second time.                                         *)
(***************************************************************************)
\* The first part of the raw pattern, up to its first underscore.
GRN6V == SubSeq(PatternHead, 1, 15)

\* The names of a directory that the pattern matches.
MatchedIn(f, fastq_dir) ==
  { e.name : e \in { x \in f : /\ x.dir = fastq_dir
                               /\ EndsWith(x.name, FastqGz)
                               /\ pattern_match(x.name).ok } }

\* A call with arguments a on the file system f has nothing left to do: in
\* place no name of the input directory matches the pattern; with an output
\* directory every matched name has its new name taken there.
NothingLeft(f, a) ==
  IF ~Truthy(a.output_dir)
  THEN MatchedIn(f, a.fastq_dir) = {}
  ELSE \A name \in MatchedIn(f, a.fastq_dir) :
         At(f, Path(a.output_dir, new_name(pattern_match(name)))) # {}

NothingLeftAtCall == NothingLeft(fs0, args)

\* The step that starts the next run with the same arguments.
IsRerun == pc = "done" /\ runs >= 1 /\ runs' = runs + 1

\* C16 as stated: after a run that is not a dry run, a second run with the
\* same arguments finds no file to rename (in place) or skips every file as
\* already existing (copy, symlink), and the file system after the second
\* run is the file system after the first. Violated: a file the first run
\* skipped in place still matches and is found again, and a file on which
\* the first run failed may be renamed, copied or linked by the second.
C16_Step0 ==
  (IsRerun /\ ~args.dry_run) =>
    /\ ~Truthy(args.output_dir) => (files_to_rename' = <<>> /\ pc' = "done")
    /\ Truthy(args.output_dir) =>
         \A i \in DOMAIN files_to_rename' : At(fs', files_to_rename'[i][2]) # {}

C16_Step ==
  (/\ IsRerun
   /\ ~args.dry_run
   /\ error_count = 0
   /\ \A name \in MatchedAtCall : pattern_match(name).project_name # GRN6V) =>
    /\ NothingLeft(fs0', args')
    /\ ~Truthy(args.output_dir) => (files_to_rename' = <<>> /\ pc' = "done")
    /\ Truthy(args.output_dir) =>
         \A i \in DOMAIN files_to_rename' : At(fs', files_to_rename'[i][2]) # {}

\* A run that starts with nothing left to do changes nothing: it does no
\* file, skips every matched file as already existing, and the file system
\* stays what it was at the call.
C16_NothingLeftNothingDone ==
  (runs >= 1 /\ ~args.dry_run /\ NothingLeftAtCall) =>
    /\ fs = fs0
    /\ success_count = 0
    /\ \A k \in DOMAIN printed :
         printed[k].msg \in OutcomeMessages =>
           printed[k].msg = "Warning: already exists, skipping"
    /\ pc = "done" => error_count = Cardinality(MatchedAtCall)

InUnitInterval(q) == q.den > 0 /\ 0 <= q.num /\ q.num <= q.den

\* C17: every frequency create_pair_plot plots for one of the pair's two
\* expected strains lies between 0 and 1 inclusive, and a row of an expected
\* strain exists only in a (timepoint, replicate) group whose two-strain
\* total is positive, so that no raw count is plotted.
C17_PlottedFrequenciesInUnitInterval ==
  \A f \in DOMAIN result.figures :
    LET fig == result.figures[f] IN
    fig.status = "saved" =>
      \A a \in DOMAIN fig.axes :
        LET ax == fig.axes[a]
            e == ExpectedStrains(fig.pair)
        IN
        /\ \A l \in ax.lines :
             /\ l.barcode \in {e[1], e[2]}
             /\ \A pt \in l.points : InUnitInterval(pt.frequency)
        /\ \A r \in ax.grouped :
             r.barcode \in {e[1], e[2]} =>
               /\ GroupCount(result.df, fig.pair, ax.condition,
                             r.timepoint, r.replicate, e[1])
                    + GroupCount(result.df, fig.pair, ax.condition,
                                 r.timepoint, r.replicate, e[2]) > 0
               /\ InUnitInterval(r.frequency)
               /\ \E l \in ax.lines :
                    /\ l.barcode = r.barcode
                    /\ l.replicate = r.replicate
                    /\ [timepoint |-> r.timepoint, frequency |-> r.frequency]
                         \in l.points

\* create_pair_plot drew a line through a frequency strictly between 0 and 1
\* from a table that holds a negative count and a group without either
\* strain.
C17_Witness ==
  /\ result.op = "create_pair_plot"
  /\ result.status = "saved"
  /\ \E a \in DOMAIN result.figures[1].axes :
       \E l \in result.figures[1].axes[a].lines :
         \E pt \in l.points :
           /\ pt.frequency.num > 0
           /\ pt.frequency.num < pt.frequency.den
  /\ \E i \in DOMAIN barcode_data.rows :
       \E j \in DOMAIN barcode_data.rows[i].counts :
         barcode_data.rows[i].counts[j] < 0

====
